---- MODULE Spec2Model ----
(***************************************************************************)
(* Model of src/gpay.js: the Google Pay UPI intent flow of a merchant      *)
(* page.  One click on the trigger (gpayButton) starts a payment attempt:  *)
(* a PaymentRequest is constructed, probed with canMakePayment(), and      *)
(* presented with show() racing a 20-minute timer.                         *)
(*                                                                         *)
(* The page is a single-threaded event loop.  A browser event (a click,    *)
(* a timer firing, a promise being settled by the browser) is a task; the  *)
(* promise reactions it schedules are microtasks, run first-in first-out   *)
(* to exhaustion before the next task.  mq is the microtask queue.         *)
(***************************************************************************)
EXTENDS Naturals, Sequences, FiniteSets, TLC

----------------------------------------------------------------------------
(* Bounds of the model. *)

\* number of clicks that reach onBuyClicked in one page lifetime
MaxAttempts == 2

----------------------------------------------------------------------------
(* Values the environment supplies. *)

\* err.name of a rejection of request.show()
ErrNames == {"NotSupportedError", "AbortError", "SecurityError"}

\* err.message / e.message of a rejection or of a thrown exception
Messages == {"m1", "m2"}

\* the words of navigator.userAgent the two regular expressions look for
UserAgents == SUBSET {"Android", "Chrome"}

NoErr == [name |-> "", message |-> ""]

Attempts == 1..MaxAttempts

----------------------------------------------------------------------------
(* Program state. *)

VARIABLES
    PaymentRequestDefined, \* globalThis.PaymentRequest is present
    domLoaded,             \* DOMContentLoaded has been dispatched
    disabled,              \* gpayButton.disabled
    status,                \* statusMessage: [message: textContent, type: className]
    href,                  \* globalThis.location.href
    now,                   \* the value the last read of Date.now() returned
    issued,                \* every value generateTransactionReferenceID returned, in order
    nAtt,                  \* number of clicks handled so far
    att,                   \* per attempt: its promises, its timer and its history
    writer,                \* the attempt whose code wrote status last (0: none or the page-load hook)
    mq                     \* the microtask queue: promise reaction jobs, oldest first

vars == <<PaymentRequestDefined, domLoaded, disabled, status, href,
          now, issued, nAtt, att, writer, mq>>

NoStatus == [message |-> "", type |-> ""]

\* An attempt no click has started yet.
\*   request   "none" | "constructed" | "threw"       new PaymentRequest(...)
\*   tr        the transaction reference of the request
\*   probe     "none" | "pending" | "true" | "false" | "rejected"   request.canMakePayment()
\*   show      "none" | "pending" | "resolved" | "rejected"         request.show()
\*   showErr   err.name of the rejection of show()
\*   timer     "none" | "armed" | "fired" | "cleared"               paymentTimeout
\*   abort     "none" | "pending" | "resolved" | "rejected"         request.abort()
\*   complete  "none" | "pending" | "resolved" | "rejected"         paymentResponse.complete('success')
\* and the history of the attempt: how often it called show(), abort(),
\* complete(), how often it disabled and enabled the trigger and navigated,
\* how many statuses its timer path and its show() continuation wrote, and
\* the last status it wrote.
FreshAttempt ==
    [request |-> "none", tr |-> "", probe |-> "none", show |-> "none",
     showErr |-> "", timer |-> "none", abort |-> "none", complete |-> "none",
     showCalls |-> 0, abortCalls |-> 0, completeCalls |-> 0,
     disables |-> 0, enables |-> 0, navs |-> 0,
     timerWrites |-> 0, showWrites |-> 0, lastWrite |-> NoStatus]

----------------------------------------------------------------------------
(* Pure functions of gpay.js. *)

\* generateTransactionReferenceID: 'TXN' + Date.now()
generateTransactionReferenceID(t) == "TXN" \o ToString(t)

\* showStatus: the two fields it assigns
showStatus(message, type) == [message |-> message, type |-> type]

\* isGPaySupported without its PaymentRequest guard
isGPaySupportedUserAgentOnly(pr, ua) == "Android" \in ua /\ "Chrome" \in ua

\* isGPaySupported
isGPaySupported(pr, ua) ==
    IF ~pr THEN FALSE
    ELSE LET isAndroid == "Android" \in ua
             isChrome  == "Chrome" \in ua
         IN  isAndroid /\ isChrome

\* the deep link of handleNotReadyToPay; encodeURIComponent of the two fixed
\* MERCHANT_CONFIG strings escapes '@' as %40 and ' ' as %20
deepLink(tr) ==
    "gpay://upi/pay?pa=9110190178%40okbizaxis&pn=Ms.%20Priya%20Kumari&am=1.00&cu=INR&tr=" \o tr

\* Date.now(): never goes backwards, may return the same value twice; between
\* two reads the clock stands still or moves on
ClockReads == {now, now + 1}

Job(kind, a, err) == [kind |-> kind, a |-> a, err |-> err]

\* a click has started attempt a
Started(a) == a <= nAtt

\* a promise reaction of attempt a is waiting in the microtask queue
HasJob(a) == \E i \in 1..Len(mq) : mq[i].a = a

\* Attempt a has ended: none of its promises is pending, its timer is not
\* armed and none of its reactions is waiting, so that no code of it can run
\* any more.
Ended(a) ==
    /\ Started(a)
    /\ att[a].probe # "pending"
    /\ att[a].show # "pending"
    /\ att[a].abort # "pending"
    /\ att[a].complete # "pending"
    /\ att[a].timer # "armed"
    /\ ~HasJob(a)

----------------------------------------------------------------------------
Init ==
    /\ PaymentRequestDefined \in BOOLEAN
    /\ domLoaded = FALSE
    /\ disabled = FALSE
    /\ status = NoStatus
    /\ href = "page"
    /\ now = 0
    /\ issued = <<>>
    /\ nAtt = 0
    /\ att = [a \in Attempts |-> FreshAttempt]
    /\ writer = 0
    /\ mq = <<>>

----------------------------------------------------------------------------
(* Tasks: they run only when the microtask queue is empty. *)

\* document.addEventListener('DOMContentLoaded', ...); ua is navigator.userAgent,
\* which only this handler reads
DOMContentLoaded(ua) ==
    /\ mq = <<>>
    /\ ~domLoaded
    /\ domLoaded' = TRUE
    /\ IF ~isGPaySupported(PaymentRequestDefined, ua)
       THEN /\ status' = showStatus("Note: Google Pay UPI Intent is only supported on Chrome for Android.", "info")
            /\ writer' = 0
       ELSE UNCHANGED <<status, writer>>
    /\ UNCHANGED <<PaymentRequestDefined, disabled, href, now, issued, nAtt, att, mq>>

\* onBuyClicked disabling the trigger before it looks for PaymentRequest
onBuyClickedUnsupportedDisabling(a) ==
    /\ ~PaymentRequestDefined
    /\ disabled' = TRUE
    /\ status' = showStatus("Web payments are not supported in this browser.", "error")
    /\ writer' = a
    /\ att' = [att EXCEPT ![a].disables = @ + 1, ![a].lastWrite = status']
    /\ UNCHANGED <<now, issued, mq>>

\* onBuyClicked, first return: no PaymentRequest in this browser
onBuyClickedUnsupported(a) ==
    /\ ~PaymentRequestDefined
    /\ status' = showStatus("Web payments are not supported in this browser.", "error")
    /\ writer' = a
    /\ att' = [att EXCEPT ![a].lastWrite = status']
    /\ UNCHANGED <<disabled, now, issued, mq>>

\* onBuyClicked disabling the trigger before the try block
onBuyClickedConstructionErrorDisabling(a, t, m) ==
    /\ PaymentRequestDefined
    /\ now' = t
    /\ issued' = Append(issued, generateTransactionReferenceID(t))
    /\ disabled' = TRUE
    /\ status' = showStatus("Payment Request Error: " \o m, "error")
    /\ writer' = a
    /\ att' = [att EXCEPT ![a].request = "threw",
                          ![a].tr = generateTransactionReferenceID(t),
                          ![a].disables = @ + 1,
                          ![a].lastWrite = status']
    /\ UNCHANGED mq

\* onBuyClicked, second return: new PaymentRequest(...) throws e
onBuyClickedConstructionError(a, t, m) ==
    /\ PaymentRequestDefined
    /\ now' = t
    /\ issued' = Append(issued, generateTransactionReferenceID(t))
    /\ status' = showStatus("Payment Request Error: " \o m, "error")
    /\ writer' = a
    /\ att' = [att EXCEPT ![a].request = "threw",
                          ![a].tr = generateTransactionReferenceID(t),
                          ![a].lastWrite = status']
    /\ UNCHANGED <<disabled, mq>>

\* onBuyClicked, the request was constructed: disable the trigger and probe
onBuyClickedProbe(a, t) ==
    /\ PaymentRequestDefined
    /\ now' = t
    /\ issued' = Append(issued, generateTransactionReferenceID(t))
    /\ disabled' = TRUE
    /\ status' = showStatus("Checking payment availability...", "info")
    /\ writer' = a
    /\ att' = [att EXCEPT ![a].request = "constructed",
                          ![a].tr = generateTransactionReferenceID(t),
                          ![a].disables = @ + 1,
                          ![a].probe = "pending",
                          ![a].lastWrite = status']
    /\ UNCHANGED mq

\* gpayButton.addEventListener('click', onBuyClicked): a disabled button
\* dispatches no click
onBuyClicked ==
    /\ mq = <<>>
    /\ ~disabled
    /\ nAtt < MaxAttempts
    /\ nAtt' = nAtt + 1
    /\ \/ onBuyClickedUnsupported(nAtt + 1)
       \/ \E t \in ClockReads, m \in Messages : onBuyClickedConstructionError(nAtt + 1, t, m)
       \/ \E t \in ClockReads : onBuyClickedProbe(nAtt + 1, t)
    /\ UNCHANGED <<PaymentRequestDefined, domLoaded, href>>

\* a clearTimeout that cancels nothing (called with a stale or wrong handle)
clearTimeoutStale(r) == r

\* globalThis.clearTimeout(paymentTimeout): cancels the timer if it has not fired
clearTimeout(r) == IF r.timer = "armed" THEN [r EXCEPT !.timer = "cleared"] ELSE r

\* request.canMakePayment() settles with a result
CanMakePaymentResolves(a, result) ==
    /\ mq = <<>>
    /\ att[a].probe = "pending"
    /\ att' = [att EXCEPT ![a].probe = IF result THEN "true" ELSE "false"]
    /\ mq' = <<Job("probeThen", a, NoErr)>>
    /\ UNCHANGED <<PaymentRequestDefined, domLoaded, disabled, status, href, now, issued, nAtt, writer>>

\* request.canMakePayment() rejects
CanMakePaymentRejects(a) ==
    /\ mq = <<>>
    /\ att[a].probe = "pending"
    /\ att' = [att EXCEPT ![a].probe = "rejected"]
    /\ mq' = <<Job("probeThenPass", a, NoErr)>>
    /\ UNCHANGED <<PaymentRequestDefined, domLoaded, disabled, status, href, now, issued, nAtt, writer>>

\* the setTimeout callback of showPaymentUI: the 20 minutes have passed
TimerFires(a) ==
    /\ mq = <<>>
    /\ att[a].timer = "armed"
    /\ att' = [att EXCEPT ![a].timer = "fired",
                          ![a].abort = "pending",
                          ![a].abortCalls = @ + 1]
    /\ UNCHANGED <<PaymentRequestDefined, domLoaded, disabled, status, href, now, issued, nAtt, writer, mq>>

\* the AbortError the browser rejects show() with when abort() succeeds
AbortError == [name |-> "AbortError", message |-> "m1"]

\* request.abort() succeeds: the browser closes the sheet, rejects the pending
\* show() promise with AbortError and then resolves the abort() promise
AbortSucceeds(a) ==
    /\ mq = <<>>
    /\ att[a].abort = "pending"
    /\ att[a].show = "pending"
    /\ att' = [att EXCEPT ![a].abort = "resolved",
                          ![a].show = "rejected",
                          ![a].showErr = AbortError.name]
    /\ mq' = <<Job("showThenPass", a, AbortError),
               Job("abortThen", a, NoErr)>>
    /\ UNCHANGED <<PaymentRequestDefined, domLoaded, disabled, status, href, now, issued, nAtt, writer>>

\* request.abort() fails: the user is in the process of paying
AbortFails(a) ==
    /\ mq = <<>>
    /\ att[a].abort = "pending"
    /\ att' = [att EXCEPT ![a].abort = "rejected"]
    /\ mq' = <<Job("abortThenPass", a, NoErr)>>
    /\ UNCHANGED <<PaymentRequestDefined, domLoaded, disabled, status, href, now, issued, nAtt, writer>>

\* request.show() resolves with a PaymentResponse
ShowResolves(a) ==
    /\ mq = <<>>
    /\ att[a].show = "pending"
    /\ att' = [att EXCEPT ![a].show = "resolved"]
    /\ mq' = <<Job("showThen", a, NoErr)>>
    /\ UNCHANGED <<PaymentRequestDefined, domLoaded, disabled, status, href, now, issued, nAtt, writer>>

\* request.show() rejects with err (the user dismissed the sheet, the payment
\* method is not supported, ...)
ShowRejects(a, err) ==
    /\ mq = <<>>
    /\ att[a].show = "pending"
    /\ att' = [att EXCEPT ![a].show = "rejected", ![a].showErr = err.name]
    /\ mq' = <<Job("showThenPass", a, err)>>
    /\ UNCHANGED <<PaymentRequestDefined, domLoaded, disabled, status, href, now, issued, nAtt, writer>>

\* paymentResponse.complete('success') resolves
CompleteResolves(a) ==
    /\ mq = <<>>
    /\ att[a].complete = "pending"
    /\ att' = [att EXCEPT ![a].complete = "resolved"]
    /\ mq' = <<Job("completeThen", a, NoErr)>>
    /\ UNCHANGED <<PaymentRequestDefined, domLoaded, disabled, status, href, now, issued, nAtt, writer>>

\* paymentResponse.complete('success') rejects
CompleteRejects(a) ==
    /\ mq = <<>>
    /\ att[a].complete = "pending"
    /\ att' = [att EXCEPT ![a].complete = "rejected"]
    /\ mq' = <<Job("completeThenPass", a, NoErr)>>
    /\ UNCHANGED <<PaymentRequestDefined, domLoaded, disabled, status, href, now, issued, nAtt, writer>>

----------------------------------------------------------------------------
(* Microtasks: the promise reaction at the head of mq runs.  A reaction of  *)
(* a .then() to a rejection, or of a .catch() to a fulfilment, only passes  *)
(* the settlement on to the next promise of the chain.  The pass-through    *)
(* at the very end of a chain has no reaction to schedule and is left out.  *)

Running(kind) == mq # <<>> /\ Head(mq).kind = kind

\* handleNotReadyToPay, called for attempt a whose record is r
handleNotReadyToPay(a, r, t) ==
    /\ now' = t
    /\ issued' = Append(issued, generateTransactionReferenceID(t))
    /\ href' = deepLink(generateTransactionReferenceID(t))
    /\ att' = [att EXCEPT ![a] = [r EXCEPT !.navs = @ + 1]]

\* showPaymentUI with the call of handleNotReadyToPay not commented out
showPaymentUIWithFallback(a, canMakePayment) ==
    IF ~canMakePayment
    THEN \E t \in ClockReads : handleNotReadyToPay(a, att[a], t)
    ELSE /\ att' = [att EXCEPT ![a].timer = "armed",
                               ![a].show = "pending",
                               ![a].showCalls = @ + 1]
         /\ UNCHANGED <<href, now, issued>>

\* showPaymentUI(request, canMakePayment)
showPaymentUI(a, canMakePayment) ==
    /\ IF ~canMakePayment
       THEN UNCHANGED att
       ELSE att' = [att EXCEPT ![a].timer = "armed",
                               ![a].show = "pending",
                               ![a].showCalls = @ + 1]
    /\ UNCHANGED <<href, now, issued>>

\* request.canMakePayment().then(function(result) {...})
probeThen ==
    /\ Running("probeThen")
    /\ showPaymentUI(Head(mq).a, att[Head(mq).a].probe = "true")
    /\ mq' = Tail(mq)
    /\ UNCHANGED <<PaymentRequestDefined, domLoaded, disabled, status, nAtt, writer>>

\* the rejection of canMakePayment() passes through .then()
probeThenPass ==
    /\ Running("probeThenPass")
    /\ mq' = Append(Tail(mq), Job("probeCatch", Head(mq).a, NoErr))
    /\ UNCHANGED <<PaymentRequestDefined, domLoaded, disabled, status, href, now, issued, nAtt, att, writer>>

\* the .catch() of canMakePayment() only logging and enabling the trigger
probeCatchSilent ==
    /\ Running("probeCatch")
    /\ disabled' = FALSE
    /\ att' = [att EXCEPT ![Head(mq).a].enables = @ + 1]
    /\ mq' = Tail(mq)
    /\ UNCHANGED <<PaymentRequestDefined, domLoaded, status, writer, href, now, issued, nAtt>>

\* the .catch() of canMakePayment() leaving the trigger disabled
probeCatchNoEnable ==
    /\ Running("probeCatch")
    /\ status' = showStatus("Error checking payment availability.", "error")
    /\ writer' = Head(mq).a
    /\ att' = [att EXCEPT ![Head(mq).a].lastWrite = status']
    /\ mq' = Tail(mq)
    /\ UNCHANGED <<PaymentRequestDefined, domLoaded, disabled, href, now, issued, nAtt>>

\* request.canMakePayment()....catch(function(err) {...})
probeCatch ==
    /\ Running("probeCatch")
    /\ status' = showStatus("Error checking payment availability.", "error")
    /\ writer' = Head(mq).a
    /\ disabled' = FALSE
    /\ att' = [att EXCEPT ![Head(mq).a].enables = @ + 1,
                          ![Head(mq).a].lastWrite = status']
    /\ mq' = Tail(mq)
    /\ UNCHANGED <<PaymentRequestDefined, domLoaded, href, now, issued, nAtt>>

\* processResponse acknowledging the payment twice
processResponseTwice(r) ==
    [r EXCEPT !.complete = "pending", !.completeCalls = @ + 2]

\* processResponse(paymentResponse): acknowledge the payment
processResponse(r) ==
    [r EXCEPT !.complete = "pending", !.completeCalls = @ + 1]

\* the .then() of show() without its clearTimeout
showThenNoClear ==
    /\ Running("showThen")
    /\ att' = [att EXCEPT ![Head(mq).a] = processResponse(@)]
    /\ mq' = Append(Tail(mq), Job("showCatchPass", Head(mq).a, NoErr))
    /\ UNCHANGED <<PaymentRequestDefined, domLoaded, disabled, status, href, now, issued, nAtt, writer>>

\* request.show().then(function(paymentResponse) {...})
showThen ==
    /\ Running("showThen")
    /\ att' = [att EXCEPT ![Head(mq).a] = processResponse(clearTimeout(@))]
    /\ mq' = Append(Tail(mq), Job("showCatchPass", Head(mq).a, NoErr))
    /\ UNCHANGED <<PaymentRequestDefined, domLoaded, disabled, status, href, now, issued, nAtt, writer>>

\* the rejection of show() passes through .then()
showThenPass ==
    /\ Running("showThenPass")
    /\ mq' = Append(Tail(mq), Job("showCatch", Head(mq).a, Head(mq).err))
    /\ UNCHANGED <<PaymentRequestDefined, domLoaded, disabled, status, href, now, issued, nAtt, att, writer>>

\* the fulfilment of the .then() promise passes through .catch()
showCatchPass ==
    /\ Running("showCatchPass")
    /\ mq' = Append(Tail(mq), Job("showFinally", Head(mq).a, NoErr))
    /\ UNCHANGED <<PaymentRequestDefined, domLoaded, disabled, status, href, now, issued, nAtt, att, writer>>

\* the .catch() of show() without its NotSupportedError branch
showCatchBodyNoFallback(a, err) ==
    LET r == clearTimeout(att[a]) IN
    /\ status' = IF err.name = "AbortError"
                 THEN showStatus("Payment was cancelled.", "info")
                 ELSE showStatus("Payment failed: " \o err.message, "error")
    /\ writer' = a
    /\ att' = [att EXCEPT ![a] = [r EXCEPT !.showWrites = @ + 1, !.lastWrite = status']]
    /\ UNCHANGED <<href, now, issued>>

\* the body of request.show()....catch(function(err) {...}) for attempt a
showCatchBody(a, err) ==
    LET r == clearTimeout(att[a]) IN
    IF err.name = "NotSupportedError"
    THEN /\ \E t \in ClockReads : handleNotReadyToPay(a, r, t)
         /\ UNCHANGED <<status, writer>>
    ELSE IF err.name = "AbortError"
    THEN /\ status' = showStatus("Payment was cancelled.", "info")
         /\ writer' = a
         /\ att' = [att EXCEPT ![a] = [r EXCEPT !.showWrites = @ + 1, !.lastWrite = status']]
         /\ UNCHANGED <<href, now, issued>>
    ELSE /\ status' = showStatus("Payment failed: " \o err.message, "error")
         /\ writer' = a
         /\ att' = [att EXCEPT ![a] = [r EXCEPT !.showWrites = @ + 1, !.lastWrite = status']]
         /\ UNCHANGED <<href, now, issued>>

\* request.show()....catch(function(err) {...})
showCatch ==
    /\ Running("showCatch")
    /\ showCatchBody(Head(mq).a, Head(mq).err)
    /\ mq' = Append(Tail(mq), Job("showFinally", Head(mq).a, NoErr))
    /\ UNCHANGED <<PaymentRequestDefined, domLoaded, disabled, nAtt>>

\* request.show()....finally(function() {...})
showFinally ==
    /\ Running("showFinally")
    /\ disabled' = FALSE
    /\ att' = [att EXCEPT ![Head(mq).a].enables = @ + 1]
    /\ mq' = Tail(mq)
    /\ UNCHANGED <<PaymentRequestDefined, domLoaded, status, href, now, issued, nAtt, writer>>

\* request.abort().then(function() {...})
abortThen ==
    /\ Running("abortThen")
    /\ status' = showStatus("Payment timed out.", "error")
    /\ writer' = Head(mq).a
    /\ att' = [att EXCEPT ![Head(mq).a].timerWrites = @ + 1,
                          ![Head(mq).a].lastWrite = status']
    /\ mq' = Tail(mq)
    /\ UNCHANGED <<PaymentRequestDefined, domLoaded, disabled, href, now, issued, nAtt>>

\* the rejection of abort() passes through .then()
abortThenPass ==
    /\ Running("abortThenPass")
    /\ mq' = Append(Tail(mq), Job("abortCatch", Head(mq).a, NoErr))
    /\ UNCHANGED <<PaymentRequestDefined, domLoaded, disabled, status, href, now, issued, nAtt, att, writer>>

\* the .catch() of abort() releasing the trigger as well
abortCatchEnabling ==
    /\ Running("abortCatch")
    /\ disabled' = FALSE
    /\ att' = [att EXCEPT ![Head(mq).a].enables = @ + 1]
    /\ mq' = Tail(mq)
    /\ UNCHANGED <<PaymentRequestDefined, domLoaded, status, href, now, issued, nAtt, writer>>

\* request.abort()....catch(function() {...}): it only logs
abortCatch ==
    /\ Running("abortCatch")
    /\ mq' = Tail(mq)
    /\ UNCHANGED <<PaymentRequestDefined, domLoaded, disabled, status, href, now, issued, nAtt, att, writer>>

\* paymentResponse.complete('success').then(function() {...})
completeThen ==
    /\ Running("completeThen")
    /\ status' = showStatus("Payment successful!", "success")
    /\ writer' = Head(mq).a
    /\ att' = [att EXCEPT ![Head(mq).a].showWrites = @ + 1,
                          ![Head(mq).a].lastWrite = status']
    /\ mq' = Tail(mq)
    /\ UNCHANGED <<PaymentRequestDefined, domLoaded, disabled, href, now, issued, nAtt>>

\* the rejection of complete() passes through .then()
completeThenPass ==
    /\ Running("completeThenPass")
    /\ mq' = Append(Tail(mq), Job("completeCatch", Head(mq).a, NoErr))
    /\ UNCHANGED <<PaymentRequestDefined, domLoaded, disabled, status, href, now, issued, nAtt, att, writer>>

\* the .catch() of complete() reporting success like the .then()
completeCatchAsSuccess ==
    /\ Running("completeCatch")
    /\ status' = showStatus("Payment successful!", "success")
    /\ writer' = Head(mq).a
    /\ att' = [att EXCEPT ![Head(mq).a].showWrites = @ + 1,
                          ![Head(mq).a].lastWrite = status']
    /\ mq' = Tail(mq)
    /\ UNCHANGED <<PaymentRequestDefined, domLoaded, disabled, href, now, issued, nAtt>>

\* paymentResponse.complete('success')....catch(function(err) {...})
completeCatch ==
    /\ Running("completeCatch")
    /\ status' = showStatus("Error completing payment.", "error")
    /\ writer' = Head(mq).a
    /\ att' = [att EXCEPT ![Head(mq).a].showWrites = @ + 1,
                          ![Head(mq).a].lastWrite = status']
    /\ mq' = Tail(mq)
    /\ UNCHANGED <<PaymentRequestDefined, domLoaded, disabled, href, now, issued, nAtt>>

----------------------------------------------------------------------------
Task ==
    \/ \E ua \in UserAgents : DOMContentLoaded(ua)
    \/ onBuyClicked
    \/ \E a \in Attempts, result \in BOOLEAN : CanMakePaymentResolves(a, result)
    \/ \E a \in Attempts : CanMakePaymentRejects(a)
    \/ \E a \in Attempts : TimerFires(a)
    \/ \E a \in Attempts : AbortSucceeds(a)
    \/ \E a \in Attempts : AbortFails(a)
    \/ \E a \in Attempts : ShowResolves(a)
    \/ \E a \in Attempts, n \in ErrNames, m \in Messages :
           ShowRejects(a, [name |-> n, message |-> m])
    \/ \E a \in Attempts : CompleteResolves(a)
    \/ \E a \in Attempts : CompleteRejects(a)

Microtask ==
    \/ probeThen
    \/ probeThenPass
    \/ probeCatch
    \/ showThen
    \/ showThenPass
    \/ showCatchPass
    \/ showCatch
    \/ showFinally
    \/ abortThen
    \/ abortThenPass
    \/ abortCatch
    \/ completeThen
    \/ completeThenPass
    \/ completeCatch

Next == Task \/ Microtask

Spec == Init /\ [][Next]_vars

----------------------------------------------------------------------------
(* Vocabulary of the claims. *)

Checking == showStatus("Checking payment availability...", "info")

\* every attempt a click has started has ended and no reaction is waiting
Quiescent == mq = <<>> /\ \A a \in Attempts : Started(a) => Ended(a)

\* the reactions of the show() chain of attempt a have all run
ShowChainDone(a) == att[a].show \in {"resolved", "rejected"} /\ ~HasJob(a)

\* Attempt a has reached its terminal status: its probe said no or failed,
\* its show() was rejected and handled, or its show() resolved and the
\* complete('success') of the response has settled and been reported.
TerminalStatus(a) ==
    /\ ~HasJob(a)
    /\ \/ att[a].probe \in {"false", "rejected"}
       \/ att[a].show = "rejected"
       \/ att[a].show = "resolved" /\ att[a].complete \in {"resolved", "rejected"}

\* attempt a disabled the trigger and has not reached its terminal status
InFlight(a) == att[a].disables > 0 /\ ~TerminalStatus(a)

----------------------------------------------------------------------------
\* C1: every attempt that disabled the trigger settles with the trigger
\* enabled: once all attempts have ended and nothing is left to run, the
\* trigger is not disabled.
C1_TriggerEnabledOnceSettled == Quiescent => ~disabled

\* C2: while an attempt that disabled the trigger has not reached its terminal
\* status (on the success path: complete('success') settled and reported), the
\* trigger is disabled, and so at most one attempt is in flight.
C2_TriggerDisabledWhileInFlight ==
    /\ \A a \in Attempts : InFlight(a) => disabled
    /\ Cardinality({a \in Attempts : InFlight(a)}) <= 1

\* C3: of the timer path and the show() continuation of one attempt, at most
\* one writes a status: never both.
C3_OneRacerWritesStatus ==
    \A a \in Attempts : ~(att[a].timerWrites > 0 /\ att[a].showWrites > 0)

\* C4: the timer firing invokes abort(); an attempt whose abort() succeeded
\* ends with the status 'Payment timed out.' (error) and the trigger
\* re-enabled; when abort() failed the timer path wrote no status.
C4_TimeoutStatus ==
    \A a \in Attempts :
        /\ att[a].timer = "fired" => att[a].abortCalls = 1
        /\ att[a].abort = "rejected" => att[a].timerWrites = 0
        /\ (att[a].abort = "resolved" /\ Ended(a)) =>
               /\ att[a].lastWrite = showStatus("Payment timed out.", "error")
               /\ att[a].enables = 1

----------------------------------------------------------------------------
\* C5 as stated: once canMakePayment() has resolved false and its reaction
\* has run, show() was not called, no timer is armed, nothing navigated, the
\* status is still 'Checking payment availability...' and the trigger is
\* disabled, in every later state, and no later attempt exists.
C5_ProbeFalseStatusStays ==
    \A a \in Attempts :
        (att[a].probe = "false" /\ ~HasJob(a)) =>
            /\ att[a].showCalls = 0
            /\ att[a].timer = "none"
            /\ att[a].navs = 0
            /\ status = Checking
            /\ disabled
            /\ nAtt = a

\* C5 as amended: once canMakePayment() has resolved false and its reaction
\* has run, the attempt never called show(), armed no timer, did not
\* navigate, wrote no status after 'Checking payment availability...', and
\* the trigger is disabled in every later state, so that no later attempt
\* exists.  (Other code may still overwrite the status.)
C5_ProbeFalseEndsSilently ==
    \A a \in Attempts :
        (att[a].probe = "false" /\ ~HasJob(a)) =>
            /\ att[a].showCalls = 0
            /\ att[a].show = "none"
            /\ att[a].timer = "none"
            /\ att[a].navs = 0
            /\ att[a].lastWrite = Checking
            /\ att[a].enables = 0
            /\ disabled
            /\ nAtt = a

\* the probe of an attempt resolved false and the reaction to it has run
C5_Witness == \E a \in Attempts : att[a].probe = "false" /\ Ended(a)

\* C6: complete('success') is invoked exactly once for a show() that
\* resolved and never otherwise; when it succeeded the attempt reported
\* 'Payment successful!' (success), when it failed 'Error completing
\* payment.' (error).
C6_CompleteOnceAndReported ==
    \A a \in Attempts :
        /\ att[a].show # "resolved" => att[a].completeCalls = 0
        /\ ShowChainDone(a) /\ att[a].show = "resolved" => att[a].completeCalls = 1
        /\ att[a].complete = "resolved" /\ ~HasJob(a) =>
               /\ att[a].lastWrite = showStatus("Payment successful!", "success")
               /\ (writer = a => status = att[a].lastWrite)
        /\ att[a].complete = "rejected" /\ ~HasJob(a) =>
               /\ att[a].lastWrite = showStatus("Error completing payment.", "error")
               /\ (writer = a => status = att[a].lastWrite)

\* both acknowledgment outcomes have been reported
C6_Witness ==
    /\ \E a \in Attempts : att[a].complete = "resolved" /\ Ended(a)
    /\ \E a \in Attempts : att[a].complete = "rejected" /\ Ended(a)

\* C7: the reaction to a rejection of show() does exactly one of three
\* things, chosen by err.name alone: NotSupportedError navigates to the deep
\* link and writes no status; AbortError writes 'Payment was cancelled.'
\* (info); any other name writes 'Payment failed: <message>' (error).  It runs
\* once per rejection.
C7_RejectionDecidedByName ==
    /\ [][Running("showCatch") =>
            LET a   == Head(mq).a
                err == Head(mq).err
            IN  IF err.name = "NotSupportedError"
                THEN /\ att'[a].navs = att[a].navs + 1
                     /\ href' = deepLink(issued'[Len(issued')])
                     /\ att'[a].showWrites = att[a].showWrites
                     /\ status' = status
                ELSE /\ att'[a].navs = att[a].navs
                     /\ href' = href
                     /\ att'[a].showWrites = att[a].showWrites + 1
                     /\ status' = IF err.name = "AbortError"
                                  THEN showStatus("Payment was cancelled.", "info")
                                  ELSE showStatus("Payment failed: " \o err.message, "error")]_vars
    /\ [](\A a \in Attempts :
            (ShowChainDone(a) /\ att[a].show = "rejected") =>
                att[a].navs + att[a].showWrites = 1)

\* each of the three branches has run
C7_Witness ==
    \E a \in Attempts :
        /\ ShowChainDone(a)
        /\ att[a].showErr = "NotSupportedError"
        /\ a < nAtt
        /\ \E b \in Attempts :
               /\ b > a
               /\ ShowChainDone(b)
               /\ att[b].showErr = "SecurityError"

\* C8: without PaymentRequest a click only writes 'Web payments are not
\* supported in this browser.' (error): no request is constructed, nothing is
\* probed, shown or timed, and the trigger stays enabled.
C8_UnsupportedBrowser ==
    ~PaymentRequestDefined =>
        /\ \A a \in Attempts :
               Started(a) =>
                   att[a] = [FreshAttempt EXCEPT !.lastWrite =
                       showStatus("Web payments are not supported in this browser.", "error")]
        /\ writer # 0 =>
               status = showStatus("Web payments are not supported in this browser.", "error")
        /\ ~disabled
        /\ issued = <<>>
        /\ mq = <<>>

\* a click was handled in a browser without PaymentRequest
C8_Witness == ~PaymentRequestDefined /\ nAtt > 0 /\ writer # 0

\* C9 as stated: an attempt that has ended, other than one whose probe
\* resolved false, has written a status after the intermediate 'Checking
\* payment availability...'.
C9_NoSilentEnd ==
    \A a \in Attempts :
        (Ended(a) /\ att[a].probe # "false") =>
            att[a].lastWrite \notin {NoStatus, Checking}

\* C9 as amended: an attempt that has ended, other than one whose probe
\* resolved false and one whose show() was rejected with NotSupportedError,
\* has written a status after the intermediate 'Checking payment
\* availability...'.
C9_NoSilentEndButFallback ==
    \A a \in Attempts :
        (Ended(a) /\ att[a].probe # "false" /\ att[a].showErr # "NotSupportedError") =>
            att[a].lastWrite \notin {NoStatus, Checking}

\* an attempt ended on the probe failure path, another on a show() rejection
C9_Witness ==
    /\ \E a \in Attempts : Ended(a) /\ att[a].probe = "rejected"
    /\ \E a \in Attempts : Ended(a) /\ att[a].showErr = "SecurityError"

\* C10: the DOMContentLoaded handler starts nothing: it leaves everything but
\* the status as it is, and the status either unchanged or, as always when
\* PaymentRequest is missing, set to the note; before the first click no
\* request exists, nothing is pending and the trigger is enabled.
C10_LoadHookStartsNothing ==
    /\ [][domLoaded' # domLoaded =>
            /\ UNCHANGED <<PaymentRequestDefined, disabled, href, now, issued, nAtt, att, mq>>
            /\ \/ status' = status
               \/ status' = showStatus("Note: Google Pay UPI Intent is only supported on Chrome for Android.", "info")
            /\ ~PaymentRequestDefined =>
                   status' = showStatus("Note: Google Pay UPI Intent is only supported on Chrome for Android.", "info")]_vars
    /\ [](nAtt = 0 =>
            /\ att = [a \in Attempts |-> FreshAttempt]
            /\ issued = <<>>
            /\ mq = <<>>
            /\ href = "page"
            /\ ~disabled)

\* the page-load hook has run and written its note, and no attempt exists
C10_Witness ==
    /\ domLoaded
    /\ nAtt = 0
    /\ status = showStatus("Note: Google Pay UPI Intent is only supported on Chrome for Android.", "info")

----------------------------------------------------------------------------
\* C11: abort() is invoked only by the timer firing while show() is pending,
\* at most once per attempt; once show() has settled and its reactions have
\* run, the timer is not armed any more, so that it cannot fire.
C11_AbortOnlyWhileShowPending ==
    /\ [][\A a \in Attempts :
            att'[a].abortCalls # att[a].abortCalls =>
                /\ att[a].show = "pending"
                /\ att'[a].show = "pending"
                /\ att[a].timer = "armed"
                /\ att'[a].timer = "fired"
                /\ att'[a].abortCalls = 1]_vars
    /\ [](\A a \in Attempts :
            /\ att[a].abortCalls <= 1
            /\ att[a].abort # "none" => att[a].timer = "fired"
            /\ ShowChainDone(a) => att[a].timer \in {"fired", "cleared"})

\* show() has settled with the timer cancelled in one attempt, and after the
\* timer had fired and abort() had been invoked in another
C11_Witness ==
    /\ \E a \in Attempts : ShowChainDone(a) /\ att[a].timer = "cleared"
    /\ \E a \in Attempts : ShowChainDone(a) /\ att[a].abortCalls = 1

\* C12: an attempt that called show() enables the trigger at most once, not
\* before show() has settled, and exactly once when the reactions to the
\* settlement have run; while its show() is pending the trigger is disabled,
\* also after abort() has failed.
C12_EnabledOnceAfterShowSettled ==
    \A a \in Attempts :
        att[a].showCalls > 0 =>
            /\ att[a].enables <= 1
            /\ att[a].show = "pending" => (att[a].enables = 0 /\ disabled)
            /\ ShowChainDone(a) => att[a].enables = 1

\* the timer fired, abort() failed, show() settled later and the trigger was
\* enabled
C12_Witness ==
    \E a \in Attempts :
        /\ att[a].abort = "rejected"
        /\ Ended(a)
        /\ att[a].enables = 1
        /\ ~disabled

\* C13: an attempt whose new PaymentRequest(...) threw wrote 'Payment Request
\* Error: <message>' (error) and did nothing else: it never disabled the
\* trigger, probed, showed or armed a timer; the trigger is enabled after it.
C13_ConstructionError ==
    \A a \in Attempts :
        att[a].request = "threw" =>
            /\ \E m \in Messages :
                   att[a] = [FreshAttempt EXCEPT
                                !.request = "threw",
                                !.tr = att[a].tr,
                                !.lastWrite = showStatus("Payment Request Error: " \o m, "error")]
            /\ ~HasJob(a)
            /\ (writer = a => status = att[a].lastWrite)
            /\ (nAtt = a => ~disabled)

\* new PaymentRequest(...) threw in the latest attempt
C13_Witness ==
    \E a \in Attempts : att[a].request = "threw" /\ nAtt = a /\ writer = a

\* C14: when canMakePayment() was rejected and the reaction has run, the
\* attempt wrote 'Error checking payment availability.' (error), enabled the
\* trigger, and has ended without show() and without a timer.
C14_ProbeRejected ==
    \A a \in Attempts :
        (att[a].probe = "rejected" /\ ~HasJob(a)) =>
            /\ att[a].lastWrite = showStatus("Error checking payment availability.", "error")
            /\ (writer = a => status = att[a].lastWrite)
            /\ att[a].enables = 1
            /\ (nAtt = a => ~disabled)
            /\ att[a].showCalls = 0
            /\ att[a].show = "none"
            /\ att[a].timer = "none"
            /\ Ended(a)

\* canMakePayment() was rejected and the reaction to it has run
C14_Witness ==
    \E a \in Attempts : att[a].probe = "rejected" /\ ~HasJob(a) /\ ~disabled

----------------------------------------------------------------------------
\* C15: no two calls of generateTransactionReferenceID return the same
\* string.
C15_ReferencesUnique ==
    \A i, j \in 1..Len(issued) : i # j => issued[i] # issued[j]

\* C16: the status was last written by the latest attempt (or by the page-load
\* hook), never by an earlier attempt over a later one; and while the trigger
\* is enabled no attempt has a promise pending or a reaction waiting.
C16_NoStaleContinuation ==
    /\ writer \in {0, nAtt}
    /\ ~disabled =>
           \A a \in Attempts :
               Started(a) =>
                   /\ att[a].probe # "pending"
                   /\ att[a].show # "pending"
                   /\ att[a].abort # "pending"
                   /\ att[a].complete # "pending"
                   /\ ~HasJob(a)

\* C17: 'Payment successful!' (success) is on display only when written by an
\* attempt whose show() resolved and whose complete('success') resolved; an
\* attempt whose show() was rejected (timeout, cancellation, other error),
\* whose probe failed or whose request was not constructed never wrote it.
C17_SuccessOnlyAfterAcknowledgment ==
    /\ status = showStatus("Payment successful!", "success") =>
           /\ writer \in Attempts
           /\ att[writer].show = "resolved"
           /\ att[writer].complete = "resolved"
    /\ \A a \in Attempts :
           /\ att[a].lastWrite = showStatus("Payment successful!", "success") =>
                  /\ att[a].show = "resolved"
                  /\ att[a].complete = "resolved"
                  /\ att[a].abort # "resolved"
                  /\ att[a].probe = "true"
                  /\ att[a].request = "constructed"

\* the status shows a success, and an attempt whose complete() failed has ended
C17_Witness ==
    /\ status = showStatus("Payment successful!", "success")
    /\ \E a \in Attempts : att[a].complete = "rejected" /\ Ended(a)

\* C18: at most one timer is armed; an armed timer belongs to the latest
\* attempt, whose show() is pending or has just settled; while the trigger is
\* enabled no timer is armed.
C18_OneTimerOfTheLatestAttempt ==
    /\ Cardinality({a \in Attempts : att[a].timer = "armed"}) <= 1
    /\ \A a \in Attempts :
           att[a].timer = "armed" =>
               /\ a = nAtt
               /\ disabled
               /\ att[a].show = "pending" \/ HasJob(a)

\* a second attempt has its timer armed after the first one was presented
C18_Witness ==
    \E a, b \in Attempts :
        /\ a < b
        /\ att[a].showCalls = 1
        /\ att[b].timer = "armed"

\* C19: an attempt navigates to the deep link at most once, and only when its
\* show() was rejected with NotSupportedError and not aborted by the timer;
\* location.href changes for no other reason.
C19_DeepLinkOnlyOnNotSupported ==
    /\ \A a \in Attempts :
           /\ att[a].navs <= 1
           /\ att[a].navs = 1 =>
                  /\ att[a].show = "rejected"
                  /\ att[a].showErr = "NotSupportedError"
                  /\ att[a].probe = "true"
                  /\ att[a].abort # "resolved"
                  /\ att[a].complete = "none"
           /\ (ShowChainDone(a) /\ att[a].showErr = "NotSupportedError") => att[a].navs = 1
    /\ href # "page" <=> \E a \in Attempts : att[a].navs = 1

\* the page has navigated to the deep link
C19_Witness ==
    /\ href # "page"
    /\ \E a \in Attempts : att[a].navs = 1 /\ Ended(a)

====
